---- MODULE Spec2Model ----
(***************************************************************************)
(* sbertask: a character device that works as a FIFO byte queue            *)
(* (src/sber/sbertask.c).  Queues live in a red-black tree keyed by pid;   *)
(* the module parameter "mode" selects default / single / multi.           *)
(*                                                                         *)
(* Granularity.  Every system call is a sequence of steps, one per access  *)
(* to shared memory that another task can race with (a few adjacent        *)
(* accesses are taken together where noted).  The kernel list primitives   *)
(* list_add_tail / list_del are taken as single steps.                     *)
(*                                                                         *)
(* Builds.  A spinlock taken twice by the same task (rm_buffer, and every  *)
(* multi-mode entry point) never returns on a CONFIG_SMP kernel and is a   *)
(* no-op on a uniprocessor kernel, where spin_lock compiles to nothing and *)
(* a task inside the kernel runs until it sleeps or returns.  The build is *)
(* drawn in Init (smp).                                                    *)
(***************************************************************************)
EXTENDS Integers, Sequences, FiniteSets, TLC

\* ------------------------------------------------------------ bounds
\* BUFFER_DEPTH is 1000 in the source (sbertask.c:40); the model scales it.
\* Every formula below is stated relative to BUFFER_DEPTH.
BUFFER_DEPTH == 2
\* Number of user tasks (each has its own pid; pid of task t is t).
NTasks == 2
\* Longest write and longest read request (bytes).
MaxLen == 3
MaxRead == 2
\* Total number of system calls issued.
MaxCalls == 4
\* Number of calls that may begin while another task is executing inside the
\* driver (SMP build), and the longest request of two such calls.
MaxRaces == 1
RaceLen == 1
\* Total number of injected environment failures: failed allocations,
\* faulting user copies, signals delivered to a sleeping task.
MaxFaults == 1

\* ------------------------------------------------------------ constants
MODE_DEFAULT == 0
MODE_SINGLE == 1
MODE_MULTI == 2
EBUSY == 16
ENOMEM == 12
EINVAL == 22

\* The null pointer; the list sentinel (the element buffer_head points to) as a
\* list position; the data of an element nothing was stored in yet; the zero
\* byte, which get_user() stores when the user copy faults and which no write
\* of the model submits.
NULLP == -1
HEAD == 0
UNINIT == -1
NUL == 0

Tasks == 1..NTasks
Keys == 0..NTasks
\* The lock-holder id of the rmmod process.
RMMOD == NTasks + 1

VARIABLES
  driver_mode,        \* MODE_DEFAULT / MODE_SINGLE / MODE_MULTI, fixed by module_start
  smp,                \* the kernel build: TRUE = CONFIG_SMP
  ms,                 \* module_stop: its position and the tree node it is at
  root,               \* the red-black tree: root[k] is the number of nodes keyed k
  node,               \* node[k]: the struct rb_buf_node keyed by pid k
  buffer_lock,        \* spinlock: 0 free, else the task holding it
  rb_tree_lock,       \* spinlock: 0 free, else the task holding it
  mode_single_mutex,  \* TRUE = locked
  th,                 \* th[t]: task t's position and locals
  fd,                 \* fd[t]: the open file task t has a descriptor for (0: none)
  running,            \* uniprocessor build: the task now inside the kernel (0: none)
  delivered,          \* delivered[k]: bytes put_user handed out from queue k, in order
  accepted,           \* accepted[k]: bytes stored and counted into queue k, in order
  counted,            \* bytes covered by the return value of a completed write
  overlapped,         \* some call began while another call was in progress
  wseq,               \* wseq[t]: bytes task t has submitted in earlier writes
  nraces,             \* calls begun while another task was executing in the driver
  seen,               \* tasks that have issued a call or were handed a descriptor
  ncalls,             \* system calls issued so far
  nfaults             \* environment failures injected so far

vars == <<driver_mode, smp, ms, root, node, buffer_lock, rb_tree_lock,
          mode_single_mutex, th, fd, running, delivered, accepted, counted,
          overlapped, wseq, nraces, seen, ncalls, nfaults>>

\* Groups of variables for the frame conditions.
build == <<driver_mode, smp, ms>>
locks == <<buffer_lock, rb_tree_lock, mode_single_mutex>>
hist == <<delivered, accepted, counted>>
budget == <<overlapped, wseq, nraces, seen, ncalls, nfaults>>

\* ------------------------------------------------------------ helpers
Merge(r, s) == [f \in DOMAIN r |-> IF f \in DOMAIN s THEN s[f] ELSE r[f]]

Min(a, b) == IF a < b THEN a ELSE b

Range(s) == {s[j] : j \in 1..Len(s)}

IsPrefix(s, r) == Len(s) <= Len(r) /\ \A j \in 1..Len(s) : s[j] = r[j]

\* struct rb_buf_node as add_buffer initialises it.
FreshNode ==
  [buffer_head |-> NULLP, buffer_tail |-> NULLP, chain |-> <<>>,
   buffer_length |-> 0, read_ready |-> FALSE, write_ready |-> TRUE,
   finished |-> FALSE]

\* One key for every caller, whatever the mode.
KeyShared(t) == 0

\* The key a call works on: current->pid in multi mode, else 0.
KeyOf(t) == IF driver_mode = MODE_MULTI THEN t ELSE 0

\* The keys a walk down the tree finds.
InTree == {k \in Keys : root[k] > 0}

\* get_buffer's tree walk (the lock it takes is in the callers' guards).
get_buffer(pid) == IF pid \in InTree THEN pid ELSE NULLP

\* A spin_lock(&rb_tree_lock) that never waits.
RbAlwaysFree(t) == TRUE

\* spin_lock(&rb_tree_lock) can be passed by task t: on an SMP build only when
\* the lock is free (a task that holds it already spins for ever).
RbFree(t) == ~smp \/ rb_tree_lock = 0

\* Data bytes and element ids of a chain.
Data(ch) == [j \in 1..Len(ch) |-> ch[j].data]
Ids(ch) == {ch[j].id : j \in 1..Len(ch)}

\* Byte j of the user buffer of a write by task t that has submitted n bytes
\* before: every submitted byte is distinct and names its writer.
UserByte(t, n, j) == t * (MaxCalls * MaxLen + 1) + n + j + 1
WriterOf(b) == b \div (MaxCalls * MaxLen + 1)

\* Positions at which a task is not running inside the kernel.
Parked == {"idle", "oops", "rd_sleep", "wr_sleep"}
Quiet == {"idle", "oops"}

IdleTask ==
  [pc |-> "idle", op |-> "none", bn |-> NULLP, len |-> 0, cnt |-> 0, ret |-> 0,
   tmp |-> 0, base |-> 0, pos |-> HEAD, nxt |-> HEAD, sig |-> FALSE,
   slept |-> FALSE,
   solo |-> TRUE, key |-> 0, L0 |-> 0, ch0 |-> <<>>, rbuf |-> <<>>]

\* A task killed by a kernel oops inside call `op` on node pointer bn.
Dead(op, bn) == Merge(IdleTask, [pc |-> "oops", op |-> op, bn |-> bn])

\* Uniprocessor build: only the task inside the kernel may step.
CanRun(t) == ms.pc = "off" /\ (smp \/ running \in {0, t})

Sched(t) == running' = IF smp \/ th'[t].pc \in Parked THEN 0 ELSE t

\* Task t takes a step that changes only its own locals.
Go(t, upd) == th' = [th EXCEPT ![t] = Merge(@, upd)]

Oops(t) == th' = [th EXCEPT ![t] = Dead(th[t].op, th[t].bn)]

\* Task t takes a step and wake_up_interruptible() moves every task that sleeps
\* at `from` on queue k to `to`, where it evaluates its wait condition again.
GoWake(t, upd, k, from, to) ==
  th' = [u \in Tasks |->
           IF u = t THEN Merge(th[t], upd)
           ELSE IF th[u].pc = from /\ th[u].bn = k THEN Merge(th[u], [pc |-> to])
           ELSE th[u]]

\* No other task is executing inside the driver.
Alone(t) == \A u \in Tasks \ {t} : th[u].pc \in Parked

\* A request of n bytes by task t fits the bound on racing calls.
Fits(t, n) ==
  Alone(t) \/ (n <= RaceLen /\ \A u \in Tasks \ {t} : th[u].len <= RaceLen)

\* pids are handed out in the order in which tasks first act.
InOrder(t) == \A u \in 1..(t - 1) : u \in seen

\* Task t enters a system call.
Begin(t, upd) ==
  /\ th' = [u \in Tasks |->
              IF u = t
              THEN Merge(Merge(IdleTask,
                               [solo |-> \A v \in Tasks \ {t} : th[v].pc \in Quiet,
                                key |-> KeyOf(t),
                                L0 |-> node[KeyOf(t)].buffer_length,
                                ch0 |-> Data(node[KeyOf(t)].chain),
                                base |-> wseq[t]]), upd)
              ELSE IF th[u].pc \notin Quiet THEN Merge(th[u], [solo |-> FALSE])
              ELSE th[u]]
  /\ overlapped' = (overlapped \/ \E v \in Tasks \ {t} : th[v].pc \notin Quiet)
  /\ nraces' = IF Alone(t) THEN nraces ELSE nraces + 1
  /\ seen' = seen \cup {t}
  /\ ncalls' = ncalls + 1

Callable(t) ==
  /\ CanRun(t)
  /\ th[t].pc = "idle"
  /\ ncalls < MaxCalls
  /\ Alone(t) \/ nraces < MaxRaces
  /\ InOrder(t)

\* ------------------------------------------------------------ module_start
Init ==
  /\ driver_mode \in {MODE_DEFAULT, MODE_SINGLE, MODE_MULTI}
  /\ smp \in BOOLEAN
  /\ ms = [pc |-> "off", cur |-> NULLP]
  /\ root = [k \in Keys |-> 0]
  /\ node = [k \in Keys |-> FreshNode]
  /\ buffer_lock = 0
  /\ rb_tree_lock = 0
  /\ mode_single_mutex = FALSE
  /\ th = [t \in Tasks |-> IdleTask]
  /\ fd = [t \in Tasks |-> 0]
  /\ running = 0
  /\ delivered = [k \in Keys |-> <<>>]
  /\ accepted = [k \in Keys |-> <<>>]
  /\ counted = {}
  /\ overlapped = FALSE
  /\ wseq = [t \in Tasks |-> 0]
  /\ nraces = 0
  /\ seen = {}
  /\ ncalls = 0
  /\ nfaults = 0

\* ------------------------------------------------------------ return to user
\* The call's result reaches the caller: a descriptor after a successful open,
\* the first ret bytes of the buffer after a read, the count after a write.
Return(t) ==
  /\ CanRun(t)
  /\ th[t].pc = "ret"
  /\ fd' = IF th[t].op = "open" /\ th[t].ret = 0 THEN [fd EXCEPT ![t] = t] ELSE fd
  /\ delivered' = IF th[t].op = "read" /\ th[t].ret > 0
                  THEN [delivered EXCEPT ![th[t].key] =
                          @ \o SubSeq(th[t].rbuf, 1, Min(th[t].ret, Len(th[t].rbuf)))]
                  ELSE delivered
  /\ counted' = IF th[t].op = "write" /\ th[t].ret > 0
                THEN counted \cup {UserByte(t, th[t].base, j) : j \in 0..(th[t].ret - 1)}
                ELSE counted
  /\ th' = [th EXCEPT ![t] = IdleTask]
  /\ Sched(t)
  /\ UNCHANGED <<build, locks, root, node, accepted, budget>>

\* ------------------------------------------------------------ sbertask_open
\* A trylock that always succeeds.
MutexAlwaysFree(m) == TRUE

\* mutex_trylock(&mode_single_mutex) succeeds when the mutex is not locked.
MutexFree(m) == ~m

\* open(2) reaches sbertask_open; in single mode the trylock is its first
\* statement and a failure returns -EBUSY at once.
Open(t) ==
  /\ Callable(t)
  /\ fd[t] = 0
  /\ \A u \in Tasks : fd[u] # t
  /\ IF driver_mode = MODE_SINGLE /\ ~MutexFree(mode_single_mutex)
     THEN /\ Begin(t, [op |-> "open", pc |-> "ret", ret |-> -EBUSY])
          /\ UNCHANGED mode_single_mutex
     ELSE /\ Begin(t, [op |-> "open",
                       pc |-> IF driver_mode = MODE_MULTI THEN "op_lock" ELSE "op_add"])
          /\ mode_single_mutex' = (driver_mode = MODE_SINGLE)
  /\ Sched(t)
  /\ UNCHANGED <<build, root, node, buffer_lock, rb_tree_lock, fd, hist, wseq, nfaults>>

\* MODE_MULTI: spin_lock(&rb_tree_lock) before add_buffer.
OpLock(t) ==
  /\ CanRun(t)
  /\ th[t].pc = "op_lock"
  /\ RbFree(t)
  /\ rb_tree_lock' = IF smp THEN t ELSE rb_tree_lock
  /\ Go(t, [pc |-> "op_add"])
  /\ Sched(t)
  /\ UNCHANGED <<build, root, node, buffer_lock, mode_single_mutex, fd, hist, budget>>

\* add_buffer(pid): spin_lock(&rb_tree_lock) and the walk down the tree.  A node
\* with the key is found: unlock, return 0.  None is found: the lock stays
\* taken for the insertion.
OpAdd(t) ==
  /\ CanRun(t)
  /\ th[t].pc = "op_add"
  /\ RbFree(t)
  /\ IF KeyOf(t) \in InTree
     THEN /\ Go(t, [pc |-> "op_get", ret |-> 0])
          /\ UNCHANGED rb_tree_lock
     ELSE /\ Go(t, [pc |-> "op_ins"])
          /\ rb_tree_lock' = IF smp THEN t ELSE rb_tree_lock
  /\ Sched(t)
  /\ UNCHANGED <<build, root, node, buffer_lock, mode_single_mutex, fd, hist, budget>>

\* add_buffer: kmalloc(GFP_ATOMIC), which may fail; rb_link_node,
\* rb_insert_color and the initialisation of the new node; exit: spin_unlock.
OpIns(t) ==
  /\ CanRun(t)
  /\ th[t].pc = "op_ins"
  /\ \/ /\ root' = [root EXCEPT ![KeyOf(t)] = @ + 1]
        /\ node' = [node EXCEPT ![KeyOf(t)] = FreshNode]
        /\ Go(t, [pc |-> "op_get", ret |-> 0])
        /\ UNCHANGED nfaults
     \/ /\ nfaults < MaxFaults
        /\ nfaults' = nfaults + 1
        /\ Go(t, [pc |-> "op_get", ret |-> -ENOMEM])
        /\ UNCHANGED <<root, node>>
  /\ rb_tree_lock' = 0
  /\ Sched(t)
  /\ UNCHANGED <<build, buffer_lock, mode_single_mutex, fd, hist, overlapped, wseq,
                 nraces, seen, ncalls>>

\* buf_node = get_buffer(pid).
OpGet(t) ==
  /\ CanRun(t)
  /\ th[t].pc = "op_get"
  /\ RbFree(t)
  /\ Go(t, [pc |-> "op_fin", bn |-> get_buffer(KeyOf(t))])
  /\ Sched(t)
  /\ UNCHANGED <<build, locks, root, node, fd, hist, budget>>

\* buf_node->finished = 0 (an oops when add_buffer failed and buf_node is NULL),
\* MODE_MULTI: spin_unlock(&rb_tree_lock), then the return code: -ENOMEM when
\* add_buffer failed, else 0.
OpFin(t) ==
  /\ CanRun(t)
  /\ th[t].pc = "op_fin"
  /\ IF th[t].bn = NULLP
     THEN /\ Oops(t)
          /\ UNCHANGED <<node, rb_tree_lock>>
     ELSE /\ node' = [node EXCEPT ![th[t].bn].finished = FALSE]
          /\ rb_tree_lock' = IF driver_mode = MODE_MULTI THEN 0 ELSE rb_tree_lock
          /\ Go(t, [pc |-> "ret"])
  /\ Sched(t)
  /\ UNCHANGED <<build, root, buffer_lock, mode_single_mutex, fd, hist, budget>>

\* ------------------------------------------------------------ sbertask_release
\* A descriptor is passed on (fork, a second thread): both tasks now use the
\* same open file.
Share(t, u) ==
  /\ CanRun(t)
  /\ t # u
  /\ th[t].pc = "idle" /\ th[u].pc = "idle"
  /\ fd[t] # 0 /\ fd[u] = 0
  /\ InOrder(u)
  /\ fd' = [fd EXCEPT ![u] = fd[t]]
  /\ seen' = seen \cup {u}
  /\ UNCHANGED <<build, locks, root, node, th, running, hist, overlapped, wseq,
                 nraces, ncalls, nfaults>>

\* close(2): the file's release runs when its last descriptor is closed.
\* MODE_MULTI: release does nothing.
Close(t) ==
  /\ Callable(t)
  /\ fd[t] # 0
  /\ fd' = [fd EXCEPT ![t] = 0]
  /\ IF \E u \in Tasks \ {t} : fd[u] = fd[t]
     THEN UNCHANGED <<th, overlapped, nraces, seen, ncalls>>
     ELSE Begin(t, [op |-> "release",
                    pc |-> IF driver_mode = MODE_MULTI THEN "ret" ELSE "rl_get"])
  /\ Sched(t)
  /\ UNCHANGED <<build, locks, root, node, hist, wseq, nfaults>>

\* MODE_SINGLE / MODE_DEFAULT: buf_node = get_buffer(0).
RlGet(t) ==
  /\ CanRun(t)
  /\ th[t].pc = "rl_get"
  /\ RbFree(t)
  /\ Go(t, [pc |-> "rl_fin", bn |-> get_buffer(0)])
  /\ Sched(t)
  /\ UNCHANGED <<build, locks, root, node, fd, hist, budget>>

\* A release that neither sets `finished` nor wakes the readers.
RlFinSilent(t) ==
  /\ CanRun(t)
  /\ th[t].pc = "rl_fin"
  /\ IF th[t].bn = NULLP
     THEN /\ Oops(t)
          /\ UNCHANGED mode_single_mutex
     ELSE /\ Go(t, [pc |-> "ret"])
          /\ mode_single_mutex' =
               IF driver_mode = MODE_SINGLE THEN FALSE ELSE mode_single_mutex
  /\ Sched(t)
  /\ UNCHANGED <<build, root, node, buffer_lock, rb_tree_lock, fd, hist, budget>>

\* A release that also empties the queue.
RlFinDrops(t) ==
  /\ CanRun(t)
  /\ th[t].pc = "rl_fin"
  /\ IF th[t].bn = NULLP
     THEN /\ Oops(t)
          /\ UNCHANGED <<node, mode_single_mutex>>
     ELSE /\ node' = [node EXCEPT ![th[t].bn] =
                        Merge(@, [finished |-> TRUE, chain |-> <<>>,
                                  buffer_length |-> 0])]
          /\ GoWake(t, [pc |-> "ret"], th[t].bn, "rd_sleep", "rd_wait")
          /\ mode_single_mutex' =
               IF driver_mode = MODE_SINGLE THEN FALSE ELSE mode_single_mutex
  /\ Sched(t)
  /\ UNCHANGED <<build, root, buffer_lock, rb_tree_lock, fd, hist, budget>>

\* buf_node->finished = 1; wake_up_interruptible(&buf_node->read_wq);
\* MODE_SINGLE: mutex_unlock(&mode_single_mutex).
RlFin(t) ==
  /\ CanRun(t)
  /\ th[t].pc = "rl_fin"
  /\ IF th[t].bn = NULLP
     THEN /\ Oops(t)
          /\ UNCHANGED <<node, mode_single_mutex>>
     ELSE /\ node' = [node EXCEPT ![th[t].bn].finished = TRUE]
          /\ GoWake(t, [pc |-> "ret"], th[t].bn, "rd_sleep", "rd_wait")
          /\ mode_single_mutex' =
               IF driver_mode = MODE_SINGLE THEN FALSE ELSE mode_single_mutex
  /\ Sched(t)
  /\ UNCHANGED <<build, root, buffer_lock, rb_tree_lock, fd, hist, budget>>

\* ------------------------------------------------------------ sbertask_write
\* Bytes that sit in freed slab objects: what an element that was allocated but
\* never stored into can hold.
Stale ==
  UNION {Range(delivered[k]) : k \in Keys} \cup UNION {Range(th[u].rbuf) : u \in Tasks}

\* *(elem->data) = b for the element buffer_tail points to.  A store through a
\* pointer to the sentinel or to an element that is no longer linked changes
\* nothing a reader can see.
StoreData(ch, e, b) ==
  [j \in 1..Len(ch) |-> IF ch[j].id = e THEN [ch[j] EXCEPT !.data = b] ELSE ch[j]]

\* write(2): n bytes are requested.
Write(t, n) ==
  /\ Callable(t)
  /\ fd[t] # 0
  /\ Fits(t, n)
  /\ wseq' = [wseq EXCEPT ![t] = @ + n]
  /\ Begin(t, [op |-> "write", len |-> n,
               pc |-> IF driver_mode = MODE_MULTI THEN "wr_lock" ELSE "wr_get"])
  /\ Sched(t)
  /\ UNCHANGED <<build, locks, root, node, fd, hist, nfaults>>

\* MODE_MULTI: spin_lock(&rb_tree_lock).
WrLock(t) ==
  /\ CanRun(t)
  /\ th[t].pc = "wr_lock"
  /\ RbFree(t)
  /\ rb_tree_lock' = IF smp THEN t ELSE rb_tree_lock
  /\ Go(t, [pc |-> "wr_get"])
  /\ Sched(t)
  /\ UNCHANGED <<build, root, node, buffer_lock, mode_single_mutex, fd, hist, budget>>

\* buf_node = get_buffer(pid); if (buf_node == NULL) goto exit.
WrGet(t) ==
  /\ CanRun(t)
  /\ th[t].pc = "wr_get"
  /\ RbFree(t)
  /\ Go(t, [bn |-> get_buffer(KeyOf(t)),
            pc |-> IF get_buffer(KeyOf(t)) = NULLP THEN "wr_exit" ELSE "wr_full"])
  /\ Sched(t)
  /\ UNCHANGED <<build, locks, root, node, fd, hist, budget>>

\* if (buf_node->buffer_length >= BUFFER_DEPTH)
WrFull(t) ==
  /\ CanRun(t)
  /\ th[t].pc = "wr_full"
  /\ Go(t, [pc |-> IF node[th[t].bn].buffer_length >= BUFFER_DEPTH
                   THEN "wr_clr" ELSE "wr_new"])
  /\ Sched(t)
  /\ UNCHANGED <<build, locks, root, node, fd, hist, budget>>

\* buf_node->write_ready = 0;
WrClr(t) ==
  /\ CanRun(t)
  /\ th[t].pc = "wr_clr"
  /\ node' = [node EXCEPT ![th[t].bn].write_ready = FALSE]
  /\ Go(t, [pc |-> "wr_wait"])
  /\ Sched(t)
  /\ UNCHANGED <<build, locks, root, fd, hist, budget>>

\* wait_event_interruptible(buf_node->write_wq, buf_node->write_ready != 0):
\* the condition is tested on entry and after every wake_up.
WrWait(t) ==
  /\ CanRun(t)
  /\ th[t].pc = "wr_wait"
  /\ IF node[th[t].bn].write_ready
     THEN Go(t, [pc |-> "wr_new"])
     ELSE Go(t, [pc |-> "wr_sleep", slept |-> TRUE])
  /\ Sched(t)
  /\ UNCHANGED <<build, locks, root, node, fd, hist, budget>>

\* if (buf_node->buffer_length == 0): a new sentinel replaces buffer_head
\* (whatever was linked to the old one is no longer reachable);
\* INIT_LIST_HEAD on a failed allocation is an oops.
WrNew(t) ==
  /\ CanRun(t)
  /\ th[t].pc = "wr_new"
  /\ \/ /\ node[th[t].bn].buffer_length # 0
        /\ Go(t, [pc |-> "wr_loop", cnt |-> 0])
        /\ UNCHANGED <<node, nfaults>>
     \/ /\ node[th[t].bn].buffer_length = 0
        /\ node' = [node EXCEPT ![th[t].bn] =
                      Merge(@, [buffer_head |-> HEAD, buffer_tail |-> HEAD,
                                chain |-> <<>>])]
        /\ Go(t, [pc |-> "wr_loop", cnt |-> 0])
        /\ UNCHANGED nfaults
     \/ /\ node[th[t].bn].buffer_length = 0
        /\ nfaults < MaxFaults
        /\ nfaults' = nfaults + 1
        /\ node' = [node EXCEPT ![th[t].bn] =
                      Merge(@, [buffer_head |-> NULLP, chain |-> <<>>])]
        /\ Oops(t)
  /\ Sched(t)
  /\ UNCHANGED <<build, locks, root, fd, hist, overlapped, wseq, nraces, seen, ncalls>>

\* The loop test without the capacity check.
WrMoreNoCap(i, length, buffer_length) == i < length

\* i < length && buf_node->buffer_length < BUFFER_DEPTH
WrMore(i, length, buffer_length) == i < length /\ buffer_length < BUFFER_DEPTH

\* for (i = 0; i < length && buf_node->buffer_length < BUFFER_DEPTH; ...):
\* the loop test, buffer_tail = kmem_cache_alloc(), list_add_tail().
WrLoop(t) ==
  /\ CanRun(t)
  /\ th[t].pc = "wr_loop"
  /\ LET n == node[th[t].bn]
         e == UserByte(t, th[t].base, th[t].cnt)
     IN IF WrMore(th[t].cnt, th[t].len, n.buffer_length)
        THEN \/ /\ n.buffer_head # NULLP
                /\ node' = [node EXCEPT ![th[t].bn] =
                              Merge(@, [buffer_tail |-> e,
                                        chain |-> Append(n.chain,
                                                         [id |-> e, data |-> UNINIT])])]
                /\ Go(t, [pc |-> "wr_copy"])
                /\ UNCHANGED nfaults
             \/ /\ n.buffer_head = NULLP
                /\ node' = [node EXCEPT ![th[t].bn].buffer_tail = e]
                /\ Oops(t)
                /\ UNCHANGED nfaults
             \/ /\ nfaults < MaxFaults
                /\ nfaults' = nfaults + 1
                /\ node' = [node EXCEPT ![th[t].bn].buffer_tail = NULLP]
                /\ Go(t, [pc |-> "wr_exit", ret |-> -EINVAL])
        ELSE /\ Go(t, [pc |-> "wr_exit", ret |-> th[t].cnt])
             /\ UNCHANGED <<node, nfaults>>
  /\ Sched(t)
  /\ UNCHANGED <<build, locks, root, fd, hist, overlapped, wseq, nraces, seen, ncalls>>

\* get_user(buf_node->buffer_tail->data, buf): the byte, or the zero byte when
\* the user address faults, is stored through the shared buffer_tail pointer;
\* then the load of buffer_length for buffer_length++.
WrCopy(t) ==
  /\ CanRun(t)
  /\ th[t].pc = "wr_copy"
  /\ LET n == node[th[t].bn]
     IN IF n.buffer_tail = NULLP
        THEN /\ Oops(t)
             /\ UNCHANGED <<node, nfaults>>
        ELSE \/ /\ node' = [node EXCEPT ![th[t].bn].chain =
                              StoreData(n.chain, n.buffer_tail,
                                        UserByte(t, th[t].base, th[t].cnt))]
                /\ Go(t, [pc |-> "wr_inc", tmp |-> n.buffer_length])
                /\ UNCHANGED nfaults
             \/ /\ nfaults < MaxFaults
                /\ nfaults' = nfaults + 1
                /\ node' = [node EXCEPT ![th[t].bn].chain =
                              StoreData(n.chain, n.buffer_tail, NUL)]
                /\ Go(t, [pc |-> "wr_exit", ret |-> -EINVAL])
  /\ Sched(t)
  /\ UNCHANGED <<build, locks, root, fd, hist, overlapped, wseq, nraces, seen, ncalls>>

\* buffer_length++ (the store), i++.
WrInc(t) ==
  /\ CanRun(t)
  /\ th[t].pc = "wr_inc"
  /\ node' = [node EXCEPT ![th[t].bn].buffer_length = th[t].tmp + 1]
  /\ accepted' = [accepted EXCEPT ![th[t].bn] =
                    Append(@, UserByte(t, th[t].base, th[t].cnt))]
  /\ Go(t, [pc |-> "wr_loop", cnt |-> th[t].cnt + 1])
  /\ Sched(t)
  /\ UNCHANGED <<build, locks, root, fd, delivered, counted, budget>>

\* exit: MODE_DEFAULT: spin_unlock(&buffer_lock), a lock write never took;
\* buf_node->read_ready = 1 (an oops when buf_node is NULL);
\* wake_up_interruptible(&buf_node->read_wq);
\* MODE_MULTI: spin_unlock(&rb_tree_lock); return ret.
WrExit(t) ==
  /\ CanRun(t)
  /\ th[t].pc = "wr_exit"
  /\ buffer_lock' = IF driver_mode = MODE_DEFAULT THEN 0 ELSE buffer_lock
  /\ IF th[t].bn = NULLP
     THEN /\ Oops(t)
          /\ UNCHANGED <<node, rb_tree_lock>>
     ELSE /\ node' = [node EXCEPT ![th[t].bn].read_ready = TRUE]
          /\ GoWake(t, [pc |-> "ret"], th[t].bn, "rd_sleep", "rd_wait")
          /\ rb_tree_lock' = IF driver_mode = MODE_MULTI THEN 0 ELSE rb_tree_lock
  /\ Sched(t)
  /\ UNCHANGED <<build, root, mode_single_mutex, fd, hist, budget>>

\* A signal reaches a task that sleeps in wait_event_interruptible: the wait
\* returns -ERESTARTSYS, which read and write ignore.
Signal(t) ==
  /\ ms.pc = "off"
  /\ th[t].pc \in {"rd_sleep", "wr_sleep"}
  /\ nfaults < MaxFaults
  /\ nfaults' = nfaults + 1
  /\ Go(t, [pc |-> IF th[t].pc = "rd_sleep" THEN "rd_post" ELSE "wr_new",
            sig |-> TRUE])
  /\ UNCHANGED <<build, locks, root, node, fd, running, hist, overlapped, wseq, nraces, seen,
                 ncalls>>

\* ------------------------------------------------------------ sbertask_read
\* The element after position j of a chain, as a list position.
IdAt(ch, j) == IF j <= Len(ch) THEN ch[j].id ELSE HEAD

\* The index of element e in a chain (0: not linked).
IndexOf(ch, e) ==
  IF \E j \in 1..Len(ch) : ch[j].id = e
  THEN CHOOSE j \in 1..Len(ch) : ch[j].id = e
  ELSE 0

\* list_del(): the chain without element e.
Unlink(ch, e) ==
  LET j == IndexOf(ch, e)
  IN IF j = 0 THEN ch ELSE SubSeq(ch, 1, j - 1) \o SubSeq(ch, j + 1, Len(ch))

\* read(2): n bytes are requested.
Read(t, n) ==
  /\ Callable(t)
  /\ fd[t] # 0
  /\ Fits(t, n)
  /\ Begin(t, [op |-> "read", len |-> n,
               pc |-> IF driver_mode = MODE_SINGLE THEN "rd_get" ELSE "rd_lock"])
  /\ Sched(t)
  /\ UNCHANGED <<build, locks, root, node, fd, hist, wseq, nfaults>>

\* MODE_DEFAULT: spin_lock(&buffer_lock); MODE_MULTI: spin_lock(&rb_tree_lock).
RdLock(t) ==
  /\ CanRun(t)
  /\ th[t].pc = "rd_lock"
  /\ IF driver_mode = MODE_DEFAULT
     THEN /\ ~smp \/ buffer_lock = 0
          /\ buffer_lock' = IF smp THEN t ELSE buffer_lock
          /\ UNCHANGED rb_tree_lock
     ELSE /\ RbFree(t)
          /\ rb_tree_lock' = IF smp THEN t ELSE rb_tree_lock
          /\ UNCHANGED buffer_lock
  /\ Go(t, [pc |-> "rd_get"])
  /\ Sched(t)
  /\ UNCHANGED <<build, root, node, mode_single_mutex, fd, hist, budget>>

\* buf_node = get_buffer(pid); if (buf_node == NULL) return -EINVAL; -- the
\* return leaves the spinlock taken above locked.
RdGet(t) ==
  /\ CanRun(t)
  /\ th[t].pc = "rd_get"
  /\ RbFree(t)
  /\ IF get_buffer(KeyOf(t)) = NULLP
     THEN Go(t, [pc |-> "ret", ret |-> -EINVAL])
     ELSE Go(t, [pc |-> "rd_chk", bn |-> get_buffer(KeyOf(t))])
  /\ Sched(t)
  /\ UNCHANGED <<build, locks, root, node, fd, hist, budget>>

\* if (!buf_node->buffer_head || buf_node->buffer_length == 0)
RdChk(t) ==
  /\ CanRun(t)
  /\ th[t].pc = "rd_chk"
  /\ Go(t, [pc |-> IF node[th[t].bn].buffer_head = NULLP
                      \/ node[th[t].bn].buffer_length = 0
                   THEN "rd_clr" ELSE "rd_iter"])
  /\ Sched(t)
  /\ UNCHANGED <<build, locks, root, node, fd, hist, budget>>

\* buf_node->read_ready = 0;
RdClr(t) ==
  /\ CanRun(t)
  /\ th[t].pc = "rd_clr"
  /\ node' = [node EXCEPT ![th[t].bn].read_ready = FALSE]
  /\ Go(t, [pc |-> "rd_wait"])
  /\ Sched(t)
  /\ UNCHANGED <<build, locks, root, fd, hist, budget>>

\* wait_event_interruptible(buf_node->read_wq,
\*                          buf_node->read_ready || buf_node->finished):
\* the condition is tested on entry and after every wake_up; the task sleeps
\* with whatever spinlock it holds.
RdWait(t) ==
  /\ CanRun(t)
  /\ th[t].pc = "rd_wait"
  /\ IF node[th[t].bn].read_ready \/ node[th[t].bn].finished
     THEN Go(t, [pc |-> "rd_post"])
     ELSE Go(t, [pc |-> "rd_sleep", slept |-> TRUE])
  /\ Sched(t)
  /\ UNCHANGED <<build, locks, root, node, fd, hist, budget>>

\* if (!buf_node->read_ready || !buf_node->buffer_length) goto exit;  (ret is 0)
RdPost(t) ==
  /\ CanRun(t)
  /\ th[t].pc = "rd_post"
  /\ Go(t, [pc |-> IF ~node[th[t].bn].read_ready \/ node[th[t].bn].buffer_length = 0
                   THEN "rd_exit" ELSE "rd_iter"])
  /\ Sched(t)
  /\ UNCHANGED <<build, locks, root, node, fd, hist, budget>>

\* if (buf_node->buffer_length) list_for_each_entry_safe(...): the iterator is
\* set to the first element and the one after it.
RdIter(t) ==
  /\ CanRun(t)
  /\ th[t].pc = "rd_iter"
  /\ LET n == node[th[t].bn]
     IN IF n.buffer_length = 0
        THEN Go(t, [pc |-> "rd_fin"])
        ELSE IF n.buffer_head = NULLP
        THEN Oops(t)
        ELSE Go(t, [pc |-> "rd_loop", pos |-> IdAt(n.chain, 1),
                    nxt |-> IdAt(n.chain, 2)])
  /\ Sched(t)
  /\ UNCHANGED <<build, locks, root, node, fd, hist, budget>>

\* put_user(queue_iter->data, buf + c) succeeded: list_del, kmem_cache_free,
\* c++, queue_iter = queue_iter_next.
RdTake(t) ==
  LET n == node[th[t].bn]
      j == IndexOf(n.chain, th[t].pos)
      after == IF th[t].nxt = HEAD \/ IndexOf(n.chain, th[t].nxt) = 0
               THEN HEAD
               ELSE IdAt(n.chain, IndexOf(n.chain, th[t].nxt) + 1)
  IN \/ /\ j # 0 /\ n.chain[j].data # UNINIT
        /\ node' = [node EXCEPT ![th[t].bn].chain = Unlink(n.chain, th[t].pos)]
        /\ Go(t, [cnt |-> th[t].cnt + 1, pos |-> th[t].nxt, nxt |-> after,
                  rbuf |-> Append(th[t].rbuf, n.chain[j].data)])
     \/ /\ j # 0 /\ n.chain[j].data = UNINIT
        /\ \E b \in Stale \cup {NUL} :
             /\ node' = [node EXCEPT ![th[t].bn].chain = Unlink(n.chain, th[t].pos)]
             /\ Go(t, [cnt |-> th[t].cnt + 1, pos |-> th[t].nxt, nxt |-> after,
                       rbuf |-> Append(th[t].rbuf, b)])
     \/ /\ j = 0
        /\ \E b \in Stale \cup {NUL} :
             Go(t, [cnt |-> th[t].cnt + 1, pos |-> th[t].nxt, nxt |-> after,
                    rbuf |-> Append(th[t].rbuf, b)])
        /\ UNCHANGED node
     \/ /\ j = 0
        /\ Oops(t)
        /\ UNCHANGED node

\* One turn of the loop: the end test against the sentinel, the test
\* (c < buffer_length) && (c < length), put_user, list_del, kmem_cache_free,
\* c++, and the move to the saved next element; put_user fails when the user
\* address faults.  An iterator that points to an
\* element another task unlinked or dropped reads freed memory: the task dies
\* or hands out a byte that memory held.  An element whose data was not stored
\* yet holds such a byte, too.
RdLoop(t) ==
  /\ CanRun(t)
  /\ th[t].pc = "rd_loop"
  /\ LET n == node[th[t].bn]
     IN IF th[t].pos = HEAD \/ ~(th[t].cnt < n.buffer_length /\ th[t].cnt < th[t].len)
        THEN /\ Go(t, [pc |-> "rd_fin"])
             /\ UNCHANGED <<node, nfaults>>
        ELSE \/ /\ nfaults < MaxFaults
                /\ nfaults' = nfaults + 1
                /\ Go(t, [pc |-> "rd_exit", ret |-> -EINVAL])
                /\ UNCHANGED node
             \/ /\ UNCHANGED nfaults
                /\ RdTake(t)
  /\ Sched(t)
  /\ UNCHANGED <<build, locks, root, fd, hist, overlapped, wseq, nraces, seen, ncalls>>

\* ret = c; the load of buffer_length for buffer_length -= c.
RdFin(t) ==
  /\ CanRun(t)
  /\ th[t].pc = "rd_fin"
  /\ Go(t, [pc |-> "rd_dec", ret |-> th[t].cnt, tmp |-> node[th[t].bn].buffer_length])
  /\ Sched(t)
  /\ UNCHANGED <<build, locks, root, node, fd, hist, budget>>

\* The end of a read that takes its bytes off the length and leaves both
\* flags as they are.
RdDecKeepsFlags(t) ==
  /\ CanRun(t)
  /\ th[t].pc = "rd_dec"
  /\ node' = [node EXCEPT ![th[t].bn].buffer_length = th[t].tmp - th[t].cnt]
  /\ GoWake(t, [pc |-> "rd_exit"], th[t].bn, "wr_sleep", "wr_wait")
  /\ Sched(t)
  /\ UNCHANGED <<build, locks, root, fd, hist, budget>>

\* buffer_length -= c (the store); if (buffer_length == 0) read_ready = 0;
\* write_ready = 1; wake_up_interruptible(&buf_node->write_wq).
RdDec(t) ==
  /\ CanRun(t)
  /\ th[t].pc = "rd_dec"
  /\ node' = [node EXCEPT ![th[t].bn] =
                Merge(@, [buffer_length |-> th[t].tmp - th[t].cnt,
                          read_ready |-> IF th[t].tmp - th[t].cnt = 0
                                         THEN FALSE ELSE @.read_ready,
                          write_ready |-> TRUE])]
  /\ GoWake(t, [pc |-> "rd_exit"], th[t].bn, "wr_sleep", "wr_wait")
  /\ Sched(t)
  /\ UNCHANGED <<build, locks, root, fd, hist, budget>>

\* exit: MODE_DEFAULT: spin_unlock(&buffer_lock);
\*       MODE_MULTI: spin_unlock(&rb_tree_lock); return ret.
RdExit(t) ==
  /\ CanRun(t)
  /\ th[t].pc = "rd_exit"
  /\ buffer_lock' = IF driver_mode = MODE_DEFAULT THEN 0 ELSE buffer_lock
  /\ rb_tree_lock' = IF driver_mode = MODE_MULTI THEN 0 ELSE rb_tree_lock
  /\ Go(t, [pc |-> "ret"])
  /\ Sched(t)
  /\ UNCHANGED <<build, root, node, mode_single_mutex, fd, hist, budget>>

\* ------------------------------------------------------------ module_stop
\* rmmod: possible only while no file is open (the module's reference count).
\* node = rb_first(&root).
ModuleStop ==
  /\ ms.pc = "off"
  /\ \A t \in Tasks : th[t].pc = "idle" /\ fd[t] = 0
  /\ ms' = IF InTree = {}
           THEN [pc |-> "done", cur |-> NULLP]
           ELSE [pc |-> "rm_lock", cur |-> CHOOSE k \in InTree : \A m \in InTree : k <= m]
  /\ UNCHANGED <<driver_mode, smp, locks, root, node, th, fd, running, hist, budget>>

\* The argument module_stop passes: rm_buffer(0), MODE_MULTI: rm_buffer(pid).
RmArg == IF driver_mode = MODE_MULTI THEN ms.cur ELSE 0

\* rm_buffer: spin_lock(&rb_tree_lock).
RmLock ==
  /\ ms.pc = "rm_lock"
  /\ ~smp \/ rb_tree_lock = 0
  /\ rb_tree_lock' = IF smp THEN RMMOD ELSE rb_tree_lock
  /\ ms' = [ms EXCEPT !.pc = "rm_get"]
  /\ UNCHANGED <<driver_mode, smp, buffer_lock, mode_single_mutex, root, node, th, fd,
                 running, hist, budget>>

\* rm_buffer = get_buffer(pid), which takes rb_tree_lock itself;
\* if (rm_buffer == NULL) goto exit.
RmGet ==
  /\ ms.pc = "rm_get"
  /\ ~smp \/ rb_tree_lock = 0
  /\ ms' = [ms EXCEPT !.pc = IF get_buffer(RmArg) = NULLP THEN "rm_exit" ELSE "rm_free"]
  /\ UNCHANGED <<driver_mode, smp, locks, root, node, th, fd, running, hist, budget>>

\* Every element of the chain is freed; rb_erase(); kfree(rm_buffer).
RmFree ==
  /\ ms.pc = "rm_free"
  /\ root' = [root EXCEPT ![RmArg] = @ - 1]
  /\ node' = [node EXCEPT ![RmArg] = FreshNode]
  /\ ms' = [ms EXCEPT !.pc = "rm_exit"]
  /\ UNCHANGED <<driver_mode, smp, locks, th, fd, running, hist, budget>>

\* exit: spin_unlock(&rb_tree_lock); return 0.
RmExit ==
  /\ ms.pc = "rm_exit"
  /\ rb_tree_lock' = 0
  /\ ms' = [ms EXCEPT !.pc = "ms_next"]
  /\ UNCHANGED <<driver_mode, smp, buffer_lock, mode_single_mutex, root, node, th, fd,
                 running, hist, budget>>

\* node = rb_next(node).  When rm_buffer freed the node this reads freed
\* memory: the walk ends, goes on at any node or pid, or the kernel oopses.
MsNext ==
  /\ ms.pc = "ms_next"
  /\ IF ms.cur \in InTree
     THEN LET up == {k \in InTree : k > ms.cur}
          IN ms' = IF up = {} THEN [pc |-> "done", cur |-> NULLP]
                   ELSE [pc |-> "rm_lock",
                         cur |-> CHOOSE k \in up : \A m \in up : k <= m]
     ELSE \/ ms' = [pc |-> "done", cur |-> NULLP]
          \/ ms' = [pc |-> "oops", cur |-> NULLP]
          \/ \E k \in Keys : ms' = [pc |-> "rm_lock", cur |-> k]
  /\ UNCHANGED <<driver_mode, smp, locks, root, node, th, fd, running, hist, budget>>

\* ------------------------------------------------------------ next-state
Next ==
  \/ \E t \in Tasks : Return(t)
  \/ \E t \in Tasks : Open(t)
  \/ \E t \in Tasks : OpLock(t)
  \/ \E t \in Tasks : OpAdd(t)
  \/ \E t \in Tasks : OpIns(t)
  \/ \E t \in Tasks : OpGet(t)
  \/ \E t \in Tasks : OpFin(t)
  \/ \E t \in Tasks : \E u \in Tasks : Share(t, u)
  \/ \E t \in Tasks : Close(t)
  \/ \E t \in Tasks : RlGet(t)
  \/ \E t \in Tasks : RlFin(t)
  \/ \E t \in Tasks : \E n \in 0..MaxLen : Write(t, n)
  \/ \E t \in Tasks : WrLock(t)
  \/ \E t \in Tasks : WrGet(t)
  \/ \E t \in Tasks : WrFull(t)
  \/ \E t \in Tasks : WrClr(t)
  \/ \E t \in Tasks : WrWait(t)
  \/ \E t \in Tasks : WrNew(t)
  \/ \E t \in Tasks : WrLoop(t)
  \/ \E t \in Tasks : WrCopy(t)
  \/ \E t \in Tasks : WrInc(t)
  \/ \E t \in Tasks : WrExit(t)
  \/ \E t \in Tasks : Signal(t)
  \/ \E t \in Tasks : \E n \in 0..MaxRead : Read(t, n)
  \/ \E t \in Tasks : RdLock(t)
  \/ \E t \in Tasks : RdGet(t)
  \/ \E t \in Tasks : RdChk(t)
  \/ \E t \in Tasks : RdClr(t)
  \/ \E t \in Tasks : RdWait(t)
  \/ \E t \in Tasks : RdPost(t)
  \/ \E t \in Tasks : RdIter(t)
  \/ \E t \in Tasks : RdLoop(t)
  \/ \E t \in Tasks : RdFin(t)
  \/ \E t \in Tasks : RdDec(t)
  \/ \E t \in Tasks : RdExit(t)
  \/ ModuleStop
  \/ RmLock
  \/ RmGet
  \/ RmFree
  \/ RmExit
  \/ MsNext

Spec == Init /\ [][Next]_vars

\* ------------------------------------------------------------ claims
\* C1 (FIFO order).  When no two calls overlap, the bytes the reads of a queue
\* have returned so far are a prefix of the bytes its writes stored and
\* counted, in the same order: nothing skipped, repeated or reordered.
FifoOrder ==
  ~overlapped => \A k \in Keys : IsPrefix(delivered[k], accepted[k])

\* C2 (capacity bound).  In every reachable state, in every mode and under
\* every interleaving, no queue's buffer_length exceeds BUFFER_DEPTH.
CapacityBound ==
  \A k \in Keys : node[k].buffer_length <= BUFFER_DEPTH

\* The first k bytes of the user buffer of task t's current write.
Taken(t, k) == [j \in 1..k |-> UserByte(t, th[t].base, j - 1)]

\* C3 (short write).  A write of n bytes that runs alone on a queue holding
\* L < BUFFER_DEPTH bytes and returns a count returns min(n, BUFFER_DEPTH - L),
\* has appended exactly the first that many bytes of the caller's buffer, and
\* leaves the length at L plus that count; none of the remaining bytes is queued.
ShortWrite ==
  \A t \in Tasks :
    (th[t].pc = "ret" /\ th[t].op = "write" /\ th[t].solo /\ th[t].ret >= 0
       /\ th[t].L0 < BUFFER_DEPTH)
    => LET q == node[th[t].key]
           k == Min(th[t].len, BUFFER_DEPTH - th[t].L0)
           kept == IF th[t].L0 = 0 THEN <<>> ELSE th[t].ch0
       IN /\ th[t].ret = k
          /\ q.buffer_length = th[t].L0 + k
          /\ Data(q.chain) = kept \o Taken(t, k)

\* C3 witness: a write longer than the capacity on an empty queue has returned
\* BUFFER_DEPTH.
ShortWriteSeen ==
  \E t \in Tasks :
    /\ th[t].pc = "ret" /\ th[t].op = "write" /\ th[t].solo
    /\ th[t].L0 = 0 /\ th[t].len > BUFFER_DEPTH
    /\ th[t].ret = BUFFER_DEPTH
    /\ node[th[t].key].buffer_length = BUFFER_DEPTH

\* Some step of sbertask_write taken by task t.
WriteStep(t) ==
  \/ WrLock(t) \/ WrGet(t) \/ WrFull(t) \/ WrClr(t) \/ WrWait(t)
  \/ WrNew(t) \/ WrLoop(t) \/ WrCopy(t) \/ WrInc(t) \/ WrExit(t)

\* Every byte of sequence s was submitted by the task whose pid is k.
OwnBytes(s, k) == \A j \in 1..Len(s) : s[j] = NUL \/ WriterOf(s[j]) = k

\* In multi mode a call of identity t works on no queue but the one keyed t, and
\* what a read of identity t hands out was written by t.
IsolationState ==
  driver_mode = MODE_MULTI =>
    /\ \A t \in Tasks : th[t].bn \in {NULLP, t}
    /\ \A t \in Tasks : OwnBytes(th[t].rbuf, t)
    /\ \A k \in Keys : OwnBytes(delivered[k], k)

\* In multi mode no step of a write of identity t changes the length of a queue
\* of another identity.
IsolationStep ==
  driver_mode = MODE_MULTI =>
    \A t \in Tasks :
      WriteStep(t) =>
        \A k \in Keys \ {t} : node'[k].buffer_length = node[k].buffer_length

\* C4 (isolation under the multi policy).  For any two identities A and B and
\* any interleaving of their calls, no byte written by A is returned by a read
\* of B, and no write of A changes the length of B's queue.
Isolation == []IsolationState /\ [][IsolationStep]_vars

\* C4 witness: identity 1 has written and read back its own bytes while
\* identity 2 has a queue, which is still empty.
IsolationSeen ==
  /\ driver_mode = MODE_MULTI
  /\ delivered[1] # <<>>
  /\ 2 \in InTree
  /\ node[2].buffer_length = 0 /\ node[2].chain = <<>>

\* Handles of the device: descriptors held, and opens that have succeeded and
\* are about to hand out theirs.
Handles ==
  ({fd[t] : t \in Tasks} \ {0})
    \cup {t \in Tasks : th[t].op = "open" /\ th[t].pc = "ret" /\ th[t].ret = 0}

\* In single mode at most one handle exists and an open ends with 0 or -EBUSY.
SingleState ==
  driver_mode = MODE_SINGLE =>
    /\ Cardinality(Handles) <= 1
    /\ \A t \in Tasks :
         (th[t].op = "open" /\ th[t].pc = "ret") => th[t].ret \in {0, -EBUSY}

\* In single mode an open issued while a handle is held returns -EBUSY in its
\* first step; an open issued while no handle is held and no other call runs
\* gets past the trylock.
SingleStep ==
  driver_mode = MODE_SINGLE =>
    \A t \in Tasks :
      Open(t) =>
        /\ (\E u \in Tasks : fd[u] # 0)
             => (th'[t].pc = "ret" /\ th'[t].ret = -EBUSY)
        /\ ((\A u \in Tasks : fd[u] = 0) /\ (\A u \in Tasks \ {t} : th[u].pc = "idle"))
             => th'[t].pc = "op_add"

\* C5 (single-policy exclusivity).  In single mode, while a handle is open every
\* further open returns -EBUSY at once, so at most one handle is open at any
\* time; once it is closed the next open succeeds.
SingleExclusive == []SingleState /\ [][SingleStep]_vars

\* C5 witness: an open has returned -EBUSY while another task holds the handle.
SingleBusySeen ==
  /\ driver_mode = MODE_SINGLE
  /\ \E t \in Tasks, u \in Tasks :
       /\ th[t].op = "open" /\ th[t].pc = "ret" /\ th[t].ret = -EBUSY
       /\ fd[u] # 0

DisconnectStep ==
  \A t \in Tasks :
    /\ (RlFin(t) /\ th[t].bn # NULLP)
         => /\ node'[th[t].bn].finished
            /\ \A u \in Tasks : ~(th'[u].pc = "rd_sleep" /\ th'[u].bn = th[t].bn)
    /\ (RdWait(t) /\ node[th[t].bn].finished) => th'[t].pc = "rd_post"
    /\ (RdPost(t) /\ node[th[t].bn].buffer_length = 0)
         => (th'[t].pc = "rd_exit" /\ th'[t].ret = 0)
    /\ (driver_mode = MODE_MULTI /\ Close(t))
         => (node' = node /\ \A u \in Tasks \ {t} : th'[u].pc = th[u].pc)

RmBufferTerminates ==
  ms.pc = "rm_get" => (~smp \/ rb_tree_lock # RMMOD)

\* A read of length > 0 that no signal interrupted takes the exit that returns 0
\* only when the queue is empty and `finished` is set.
ZeroStep ==
  \A t \in Tasks :
    (RdPost(t) /\ th[t].len > 0 /\ ~th[t].sig /\ th'[t].pc = "rd_exit")
      => (node[th[t].bn].finished /\ node[th[t].bn].buffer_length = 0)

\* C8 (a read returns 0 only on disconnect-while-empty).  Whenever a read of
\* length > 0 returns 0 without having been interrupted, the queue was empty
\* and a peer had closed its handle since the last open.
ZeroOnlyOnDisconnect == [][ZeroStep]_vars

\* C9 (NoSuchQueue).  A read or write of an identity that has no queue ends by
\* returning -EINVAL: it does not dereference the missing entry.
NoSuchQueue ==
  \A t \in Tasks :
    (th[t].op \in {"read", "write"} /\ th[t].pc \in {"ret", "oops"}
       /\ th[t].bn = NULLP)
      => (th[t].pc = "ret" /\ th[t].ret = -EINVAL)

\* Bytes that reads have taken off queue k: returned, or copied out by a read
\* that is still running.
Consumed(k) ==
  Range(delivered[k])
    \cup UNION {Range(th[t].rbuf) : t \in {u \in Tasks : th[u].key = k}}

\* C10 (default policy, concurrent writers).  With no fault injected, every
\* byte counted in the return value of a write is linked in the queue or was
\* taken off it by a read: no counted byte is lost.
NoLostBytes ==
  (driver_mode = MODE_DEFAULT /\ nfaults = 0) =>
    \A b \in counted : b \in Range(Data(node[0].chain)) \cup Consumed(0)

\* C11 (end-to-end under the multi policy).  Identity A's open, write and read
\* each return: in multi mode no call waits for rb_tree_lock while the lock is
\* held by the very task that waits.
MultiCallsReturn ==
  \A t \in Tasks :
    ~(driver_mode = MODE_MULTI /\ smp /\ rb_tree_lock = t
        /\ th[t].pc \in {"op_add", "op_get", "wr_get", "rd_get"})

\* C12 (a write on a full queue is resumed when space frees).  The reader's
\* wake-up is never lost: no writer sleeps on `writable` while the queue has
\* free space and no other call is executing that could still wake it.
WriterNotLeftAsleep ==
  \A t \in Tasks :
    (th[t].pc = "wr_sleep" /\ \A u \in Tasks \ {t} : th[u].pc \in Parked)
      => node[th[t].bn].buffer_length >= BUFFER_DEPTH

\* C13 (the read protocol guards against lost wake-ups).  No reader stays
\* suspended on `readable` while the queue holds bytes and no other call is
\* executing that could still wake it.
ReaderNotLeftAsleep ==
  \A t \in Tasks :
    (th[t].pc = "rd_sleep" /\ th[t].len > 0
       /\ \A u \in Tasks \ {t} : th[u].pc \in Parked)
      => node[th[t].bn].buffer_length = 0

\* Positions of a call inside the section of read or write that changes the
\* chain, buffer_head / buffer_tail or buffer_length of its queue.
ChainSection == {"wr_new", "wr_loop", "wr_copy", "wr_inc",
                 "rd_iter", "rd_loop", "rd_fin", "rd_dec"}

\* C14 (mutation under a lock).  No two tasks are inside the chain-mutating
\* section of the same queue at the same time.
ChainMutex ==
  \A t \in Tasks, u \in Tasks :
    (t # u /\ th[t].pc \in ChainSection /\ th[u].pc \in ChainSection)
      => th[t].bn # th[u].bn

\* C15 (suspension releases the lock).  A task suspended inside read or write
\* holds neither buffer_lock nor rb_tree_lock.
SleepsUnlocked ==
  \A t \in Tasks :
    th[t].pc \in {"rd_sleep", "wr_sleep"} => (buffer_lock # t /\ rb_tree_lock # t)

\* No call is in progress.
BetweenCalls == \A t \in Tasks : th[t].pc = "idle"

\* C16 (length = number of linked elements).  Between calls that did not
\* overlap, every queue's buffer_length equals the number of elements linked in
\* its chain, also after a call that ended with an error.
LengthIsChain ==
  (BetweenCalls /\ ~overlapped) =>
    \A k \in Keys : node[k].buffer_length = Len(node[k].chain)

\* C17 (length 0 iff head null).  Between calls that did not overlap and met no
\* fault, a queue's buffer_length is 0 exactly when its buffer_head is NULL.
HeadNullIffEmpty ==
  (BetweenCalls /\ ~overlapped /\ nfaults = 0) =>
    \A k \in Keys : (node[k].buffer_length = 0) <=> (node[k].buffer_head = NULLP)

\* C18 as stated (a full queue is not writable): between calls that did not
\* overlap and met no fault, a queue whose length equals BUFFER_DEPTH has
\* write_ready false.
FullNotWritable ==
  (BetweenCalls /\ ~overlapped /\ nfaults = 0) =>
    \A k \in Keys : node[k].buffer_length = BUFFER_DEPTH => ~node[k].write_ready

\* The steps that touch the two flags: write_ready is cleared by nothing but
\* the store of a write that found the queue at capacity; the end of a read
\* that transferred its bytes sets write_ready and, when the length it stores
\* is 0, clears read_ready.
FlagStep ==
  /\ \A k \in Keys :
       (node[k].write_ready /\ ~node'[k].write_ready)
         => \E t \in Tasks : WrClr(t) /\ th[t].bn = k
  /\ \A t \in Tasks :
       (WrFull(t) /\ th'[t].pc = "wr_clr")
         => node[th[t].bn].buffer_length >= BUFFER_DEPTH
  /\ \A t \in Tasks :
       RdDec(t) => /\ node'[th[t].bn].write_ready
                   /\ node'[th[t].bn].buffer_length = 0 => ~node'[th[t].bn].read_ready

\* C18, for the flag protocol the driver follows.  write_ready turns false only
\* when a write call finds the queue at capacity, just before that call
\* suspends; a write that fills the queue leaves it true.  A read that completes
\* its transfer always sets write_ready and, when it empties the queue, clears
\* read_ready.
FlagProtocol == [][FlagStep]_vars

\* C18 witness: a read has emptied a queue that a suspended writer had marked
\* not writable; the queue is writable again and no longer readable.
FlagsAfterDrain ==
  \E t \in Tasks, u \in Tasks :
    /\ th[t].op = "read" /\ th[t].pc = "rd_exit" /\ th[t].cnt > 0
    /\ th[u].op = "write" /\ th[u].slept
    /\ node[th[t].bn].buffer_length = 0
    /\ node[th[t].bn].write_ready /\ ~node[th[t].bn].read_ready

\* Some step of sbertask_open taken by task t.
OpenStep(t) ==
  \/ Open(t) \/ OpLock(t) \/ OpAdd(t) \/ OpIns(t) \/ OpGet(t) \/ OpFin(t)

\* The tree holds at most one node per key, and an open that has looked up its
\* node holds the node of its own key.
DirectoryState ==
  /\ \A k \in Keys : root[k] <= 1
  /\ \A t \in Tasks :
       (th[t].op = "open" /\ th[t].bn # NULLP) => th[t].bn = KeyOf(t)

\* A step of an open whose key is in the tree already leaves the tree and the
\* stored bytes of every queue as they are.
DirectoryStep ==
  \A t \in Tasks :
    (OpenStep(t) /\ KeyOf(t) \in InTree)
      => /\ root' = root
         /\ \A k \in Keys : /\ node'[k].chain = node[k].chain
                            /\ node'[k].buffer_length = node[k].buffer_length
                            /\ node'[k].buffer_head = node[k].buffer_head
                            /\ node'[k].buffer_tail = node[k].buffer_tail

\* C19 (Directory uniqueness).  The tree never holds two nodes for one key,
\* however opens of the same key interleave; every opener gets the node of its
\* key; an open of a key that has a node neither replaces the node nor touches
\* its stored bytes.
DirectoryUnique == []DirectoryState /\ [][DirectoryStep]_vars

\* C19 witness: two opens of key 0 that ran at the same time have both
\* succeeded, and the tree holds one node for the key.
ConcurrentOpensSeen ==
  /\ driver_mode = MODE_DEFAULT
  /\ \A t \in {1, 2} : th[t].op = "open" /\ th[t].pc = "ret" /\ th[t].ret = 0
                       /\ th[t].bn = 0
  /\ root[0] = 1

\* C20 (short read).  When no two calls have overlapped, a read of n bytes on
\* a queue holding L > 0 bytes that returns a count returns min(n, L), hands
\* out the oldest that many bytes, and leaves the length at L minus that count
\* with the remaining bytes queued in order.
ShortRead ==
  \A t \in Tasks :
    (th[t].pc = "ret" /\ th[t].op = "read" /\ ~overlapped /\ th[t].ret >= 0
       /\ th[t].L0 > 0)
    => LET q == node[th[t].key]
           k == Min(th[t].len, th[t].L0)
       IN /\ th[t].ret = k
          /\ th[t].rbuf = SubSeq(th[t].ch0, 1, k)
          /\ q.buffer_length = th[t].L0 - k
          /\ Data(q.chain) = SubSeq(th[t].ch0, k + 1, Len(th[t].ch0))

\* Some step of close(2) / sbertask_release taken by task t.
ReleaseStep(t) == Close(t) \/ RlGet(t) \/ RlFin(t)

\* No step of a release changes the tree or the chain, pointers or length of a
\* queue; a node leaves the tree in no step but rm_buffer's.
CloseKeepsStep ==
  /\ \A t \in Tasks :
       ReleaseStep(t)
         => /\ root' = root
            /\ \A k \in Keys : /\ node'[k].chain = node[k].chain
                               /\ node'[k].buffer_length = node[k].buffer_length
                               /\ node'[k].buffer_head = node[k].buffer_head
                               /\ node'[k].buffer_tail = node[k].buffer_tail
  /\ (\E k \in Keys : root'[k] < root[k]) => RmFree

\* C21 (close leaves the queue in place).  sbertask_release, in every mode,
\* removes no node from the tree and changes no queue's chain or length, so
\* bytes written before a close are there for a handle opened afterwards; only
\* rm_buffer, called by module_stop, removes nodes.
CloseKeepsQueue == [][CloseKeepsStep]_vars

\* C21 witness: in single mode bytes were written through the one handle, that
\* handle was closed (the release gave mode_single_mutex back), and an open that
\* took the mutex afterwards has succeeded on the queue, which still holds those
\* bytes in order.
ReopenFindsBytes ==
  \E t \in Tasks :
    /\ driver_mode = MODE_SINGLE
    /\ th[t].op = "open" /\ th[t].pc = "ret" /\ th[t].ret = 0
    /\ \A u \in Tasks : fd[u] = 0 /\ (u # t => th[u].pc = "idle")
    /\ ~node[th[t].bn].finished
    /\ accepted[th[t].bn] # <<>>
    /\ Data(node[th[t].bn].chain) = accepted[th[t].bn]
    /\ root[th[t].bn] = 1

\* C22 (out of memory on open).  When add_buffer cannot allocate the node, open
\* returns -ENOMEM without dereferencing the missing node: the task is not
\* killed inside open, and once it is back in user space with -ENOMEM
\* mode_single_mutex is not left held by it.
OutOfMemoryOpen ==
  \A t \in Tasks :
    th[t].op = "open"
      => /\ th[t].pc # "oops"
         /\ (th[t].pc = "ret" /\ th[t].ret = -ENOMEM /\ driver_mode = MODE_SINGLE)
              => ~mode_single_mutex

\* Program points at which the next statement is a spin_lock(&rb_tree_lock).
TakesRbLock == {"op_lock", "op_add", "op_get", "wr_lock", "wr_get", "rd_get"}

\* A task back in user space holds no spinlock.
ReturnsUnlocked ==
  \A t \in Tasks :
    th[t].pc \in {"idle", "ret"} => (buffer_lock # t /\ rb_tree_lock # t)

\* No task is about to take a spinlock that it holds already.
NoSelfAcquire ==
  \A t \in Tasks :
    ~(smp /\ rb_tree_lock = t /\ th[t].pc \in TakesRbLock)

\* A step that releases a spinlock is taken by the holder of that spinlock.
UnlockStep ==
  \A t \in Tasks :
    /\ (smp /\ driver_mode = MODE_DEFAULT /\ (WrExit(t) \/ RdExit(t))) => buffer_lock = t
    /\ (smp /\ driver_mode = MODE_MULTI /\ (WrExit(t) \/ RdExit(t) \/ OpFin(t)))
         => rb_tree_lock = t

\* C23 (lock balance).  Every open, read, write and close releases exactly the
\* spinlocks it took: a task that has returned holds neither buffer_lock nor
\* rb_tree_lock, no call unlocks a lock it does not hold, and no call takes a
\* spinlock it holds already.
LockBalance == [](ReturnsUnlocked /\ NoSelfAcquire) /\ [][UnlockStep]_vars

\* A read of length > 0 leaves the empty-queue branch through the exit that
\* returns 0 only when the queue holds no byte.
EndOfStreamStep ==
  \A t \in Tasks :
    (RdPost(t) /\ th[t].len > 0 /\ th'[t].pc = "rd_exit")
      => node[th[t].bn].buffer_length = 0

\* C24 (no end-of-stream while data is queued).  A read of length > 0 never
\* returns 0 while its queue holds a byte: bytes written before the reader is
\* woken are delivered before the reader sees count 0.
NoEndOfStreamWithData == [][EndOfStreamStep]_vars
====
